---- MODULE Spec2Model ----
(***************************************************************************)
(* Model of the two header-only facilities of cxx-reflection:              *)
(*   - noaland::is_a / is_a_v / conjunction   (include/noaland_lib.h)      *)
(*   - refl::type, refl::reflected_field, refl_field                       *)
(*                                            (include/cxx_reflection.h)   *)
(* The type matcher is a pure compile-time function; it is checked under   *)
(* SpecMatch, whose Init draws the two type arguments and whose single     *)
(* action instantiates is_a_v on them.  The registry is checked under      *)
(* SpecRefl.                                                               *)
(***************************************************************************)
EXTENDS Integers, Sequences, FiniteSets, TLC

VARIABLES
    x,           \* first template argument of the is_a_v instantiation
    y,           \* second template argument of the is_a_v instantiation
    result,      \* outcome of the instantiation ("pending" before it)
    constructed, \* whether the refl::type object has been constructed
    catalog,     \* FIELDS_TYPES... : the slots of field_types_variant
    specs,       \* the constructor's arguments F... field, in order
    fields,      \* refl::type::fields
    instance,    \* storage of the caller's instance of T, one cell per word
    call,        \* the last member call made on the descriptor, with its arguments
    returned,    \* what that call handed back to its caller
    written,     \* per member name, the last value stored under it by well-typed hits
    clean        \* every set_field_value so far named a registered field with its declared type

matchVars == <<x, y, result>>
reflVars == <<constructed, catalog, specs, fields, instance, call, returned, written, clean>>
vars == <<x, y, result, constructed, catalog, specs, fields, instance, call, returned,
          written, clean>>

-----------------------------------------------------------------------------
(* Bounds of the model.                                                    *)

\* Largest number of nodes (plain types plus template applications) of a
\* type description drawn as an argument of is_a_v.
MaxNodes == 3

\* Largest number of constructor arguments, and of FIELDS_TYPES, of a refl::type.
MaxFields == 2

-----------------------------------------------------------------------------
(* Type descriptions.                                                      *)

\* A non-template type: int, float, noaland::i_dont_care.
Plain(n) == [kind |-> "plain", name |-> n, args |-> <<>>]

\* A template application Tpl<args...>, Tpl taking type parameters only.
App(t, a) == [kind |-> "app", name |-> t, args |-> a]

i_dont_care == Plain("i_dont_care")

PlainNames == {"int", "float", "i_dont_care"}

TemplateNames == {"TplA", "TplB"}

RECURSIVE TypesOfSize(_), ArgLists(_, _)
\* Sequences of k type descriptions having n nodes in total.
ArgLists(k, n) ==
    IF k = 0
    THEN (IF n = 0 THEN {<<>>} ELSE {})
    ELSE UNION { { <<t>> \o rest : t \in TypesOfSize(m), rest \in ArgLists(k - 1, n - m) }
                 : m \in 1..(n - (k - 1)) }

\* Type descriptions having exactly n nodes.
TypesOfSize(n) ==
    (IF n = 1 THEN { Plain(p) : p \in PlainNames } ELSE {})
    \cup { App(t, a) : t \in TemplateNames,
                       a \in UNION { ArgLists(k, n - 1) : k \in 0..(n - 1) } }

Types == UNION { TypesOfSize(n) : n \in 1..MaxNodes }

-----------------------------------------------------------------------------
(* noaland_lib.h                                                           *)

\* is_i_dont_care<T>::value
is_i_dont_care(T) == T = i_dont_care

\* Faulty variant: the wildcard is recognised on the right-hand side only.
is_a_primary_right_only(X, Y) ==
    IF is_i_dont_care(Y) \/ X = Y THEN "true" ELSE "false"

\* Faulty variant: the std::is_same_v disjunct is missing.
is_a_primary_no_same(X, Y) ==
    IF is_i_dont_care(X) \/ is_i_dont_care(Y) THEN "true" ELSE "false"

\* The primary template is_a<X, Y>::operator().
is_a_primary(X, Y) ==
    IF is_i_dont_care(X) \/ is_i_dont_care(Y) \/ X = Y THEN "true" ELSE "false"

\* Faulty variant: a fold over || instead of &&.
conjunction_or(R) == \E i \in 1..Len(R) : R[i]

\* conjunction<R...>() : (R && ...), true for the empty pack.
conjunction(R) == \A i \in 1..Len(R) : R[i]

RECURSIVE is_a_v(_, _)
\* The partial specialization is_a<X<SUB_X...>, Y<SUB_Y...>>::operator().
\* X and Y are deduced independently of each other.  The expansion
\* is_a_v<SUB_X, SUB_Y>... of two packs of different lengths is ill-formed, and
\* so is the instantiation when any is_a_v it names is: every template argument
\* of conjunction is instantiated, there is no short circuit.
is_a_specialized(X, Y) ==
    IF Len(X.args) # Len(Y.args)
    THEN "ill_formed"
    ELSE LET sub == [i \in 1..Len(X.args) |-> is_a_v(X.args[i], Y.args[i])]
         IN  IF \E i \in 1..Len(sub) : sub[i] = "ill_formed"
             THEN "ill_formed"
             ELSE IF ~conjunction([i \in 1..Len(sub) |-> sub[i] = "true"])
                  THEN "false"
                  ELSE "true"

\* is_a_v<X, Y> : the specialization is selected when both arguments are
\* template applications, the primary template otherwise.
is_a_v(X, Y) ==
    IF X.kind = "app" /\ Y.kind = "app"
    THEN is_a_specialized(X, Y)
    ELSE is_a_primary(X, Y)

-----------------------------------------------------------------------------
(* SpecMatch: one instantiation of is_a_v.                                 *)

ReflIdle ==
    /\ constructed = FALSE
    /\ catalog = <<>>
    /\ specs = <<>>
    /\ fields = <<>>
    /\ instance = <<>>
    /\ call = [op |-> "none"]
    /\ returned = <<"none">>
    /\ written = <<>>
    /\ clean = TRUE

InitMatch ==
    /\ x \in Types
    /\ y \in Types
    /\ result = "pending"
    /\ ReflIdle

Instantiate ==
    /\ result = "pending"
    /\ result' = is_a_v(x, y)
    /\ UNCHANGED <<x, y>>
    /\ UNCHANGED reflVars

NextMatch == Instantiate

SpecMatch == InitMatch /\ [][NextMatch]_vars

-----------------------------------------------------------------------------
(* The reflected class: tests/reflection_tests.cpp, class Foo.             *)

\* class Foo { public: int i; double d; };
Members == << [name |-> "i", type |-> "int"], [name |-> "d", type |-> "double"] >>

MemberNames == { Members[k].name : k \in 1..Len(Members) }

FieldTypes == { Members[k].type : k \in 1..Len(Members) }

\* sizeof, in words of sizeof(int); alignof is the same for these types.
SizeOf(t) == IF t = "double" THEN 2 ELSE 1

AlignUp(o, a) == ((o + a - 1) \div a) * a

RECURSIVE MemberOffset(_)
\* Offset of the k-th member: the end of the one before it, aligned.
MemberOffset(k) ==
    IF k = 1
    THEN 0
    ELSE AlignUp(MemberOffset(k - 1) + SizeOf(Members[k - 1].type), SizeOf(Members[k].type))

MemberIndex(n) == CHOOSE k \in 1..Len(Members) : Members[k].name = n

\* offsetof(T, NAME)
offsetof(n) == MemberOffset(MemberIndex(n))

\* decltype(T::NAME)
decltype_member(n) == Members[MemberIndex(n)].type

\* sizeof(Foo), in words.
SizeOfT ==
    AlignUp(MemberOffset(Len(Members)) + SizeOf(Members[Len(Members)].type),
            SizeOf("double"))

\* Foo f{} : every word zero.
ZeroInstance == [c \in 1..SizeOfT |-> 0]

\* The values the caller passes, as the words of their object representation:
\* 10 and 7 for int, 3.14 and 2.71 for double.
ValuesOf(t) == IF t = "double" THEN { <<3, 14>>, <<2, 71>> } ELSE { <<10>>, <<7>> }

\* The names a caller passes to set_field_value.
FieldNames == MemberNames \cup {"nonexistent"}

-----------------------------------------------------------------------------
(* cxx_reflection.h                                                        *)

\* reflected_field<FT>(name, offset)
reflected_field(FT, name, offset) == [name |-> name, offset |-> offset, FT |-> FT]

get_name(f) == f.name

get_offset(f) == f.offset

\* refl_field(NAME), called as field.template operator()<T>()
refl_field(n) == reflected_field(decltype_member(n), n, offsetof(n))

\* field_types_variant = std::variant<type_identity<FIELDS_TYPES>...> : one
\* alternative per FIELDS_TYPES, in order.  (fields_x is declared over it but
\* never initialized, read or written: it holds no state.)
field_types_variant(FIELDS_TYPES) == FIELDS_TYPES

RECURSIVE emplace_all_front(_, _)
\* Faulty variant: every descriptor is inserted at the front.
emplace_all_front(fs, field) ==
    IF field = <<>>
    THEN fs
    ELSE emplace_all_front(<<refl_field(Head(field))>> \o fs, Tail(field))

RECURSIVE emplace_all(_, _)
\* The constructor's fold (fields.emplace_back(field()), ...), left to right.
emplace_all(fs, field) ==
    IF field = <<>>
    THEN fs
    ELSE emplace_all(Append(fs, refl_field(Head(field))), Tail(field))

RECURSIVE find_first(_, _, _)
\* The loop of set_field_value from descriptor k on: the index of the first
\* descriptor whose name is field_name, 0 when the loop runs off the end.
find_first(fs, field_name, k) ==
    IF k > Len(fs)
    THEN 0
    ELSE IF get_name(fs[k]) = field_name
         THEN k
         ELSE find_first(fs, field_name, k + 1)

\* Faulty variant: the stored offset is ignored, the store goes to the instance's base.
StoreAtBase(inst, offset, value) ==
    [c \in DOMAIN inst |-> IF c <= Len(value) THEN value[c] ELSE inst[c]]

\* *reinterpret_cast<FT*>(reinterpret_cast<char*>(&instance) + offset) = value
StoreAt(inst, offset, value) ==
    [c \in DOMAIN inst |->
        IF offset < c /\ c <= offset + Len(value) THEN value[c - offset] ELSE inst[c]]

\* Faulty variant: a name that matches nothing falls through to a store at the base.
set_field_value_miss_stores(inst, fs, field_name, FT, value) ==
    LET k == find_first(fs, field_name, 1)
    IN  IF k = 0
        THEN { StoreAt(inst, 0, value) }
        ELSE IF fs[k].FT = FT
             THEN { StoreAt(inst, get_offset(fs[k]), value) }
             ELSE { StoreAt(inst, get_offset(fs[k]), value), inst }

\* set_field_value<FT>(instance, field_name, value): the instances the call can
\* leave.  No match: the loop ends and nothing is stored.  A match whose
\* reflected_field<FT> has another FT is a store through a pointer of the wrong
\* type, undefined behaviour: the build either performs the punned store or
\* lets reads of the member not see it.
set_field_value(inst, fs, field_name, FT, value) ==
    LET k == find_first(fs, field_name, 1)
    IN  IF k = 0
        THEN { inst }
        ELSE IF fs[k].FT = FT
             THEN { StoreAt(inst, get_offset(fs[k]), value) }
             ELSE { StoreAt(inst, get_offset(fs[k]), value), inst }

\* Number of descriptors the loop of set_field_value looks at.
scanned(fs, field_name) ==
    LET k == find_first(fs, field_name, 1)
    IN  IF k = 0 THEN Len(fs) ELSE k

-----------------------------------------------------------------------------
(* SpecRefl: one refl::type<Foo, FIELDS_TYPES...> and one instance of Foo. *)

RECURSIVE SeqsUpTo(_, _)
\* Sequences over S of length at most n.
SeqsUpTo(S, n) ==
    IF n = 0
    THEN { <<>> }
    ELSE SeqsUpTo(S, n - 1)
         \cup { Append(q, e) : q \in { r \in SeqsUpTo(S, n - 1) : Len(r) = n - 1 }, e \in S }

NoCall == [op |-> "none", name |-> "", FT |-> "", value |-> <<>>, scanned |-> 0]

NothingWritten == [n \in MemberNames |-> <<>>]

MatchIdle ==
    /\ x = Plain("int")
    /\ y = Plain("int")
    /\ result = "pending"

InitRefl ==
    /\ MatchIdle
    /\ constructed = FALSE
    /\ catalog = <<>>
    /\ specs = <<>>
    /\ fields = <<>>
    /\ instance = ZeroInstance
    /\ call = NoCall
    /\ returned = <<"none">>
    /\ written = NothingWritten
    /\ clean = TRUE

\* refl::type<Foo, FIELDS_TYPES...> r{field...};
Construct ==
    /\ ~constructed
    /\ \E FIELDS_TYPES \in SeqsUpTo(FieldTypes, MaxFields),
          field \in SeqsUpTo(MemberNames, MaxFields) :
          /\ catalog' = field_types_variant(FIELDS_TYPES)
          /\ specs' = field
          /\ fields' = emplace_all(<<>>, field)
    /\ constructed' = TRUE
    /\ call' = [NoCall EXCEPT !.op = "construct"]
    /\ returned' = <<"none">>
    /\ UNCHANGED <<instance, written, clean>>
    /\ UNCHANGED matchVars

\* Foo f{};
NewInstance ==
    /\ constructed
    /\ instance' = ZeroInstance
    /\ written' = NothingWritten
    /\ clean' = TRUE
    /\ call' = [NoCall EXCEPT !.op = "new_instance"]
    /\ returned' = <<"none">>
    /\ UNCHANGED <<constructed, catalog, specs, fields>>
    /\ UNCHANGED matchVars

\* r.fields[k]->get_name(), r.fields[k]->get_offset()
ReadField ==
    /\ constructed
    /\ \E k \in 1..Len(fields) :
          /\ returned' = <<"field", get_name(fields[k]), get_offset(fields[k])>>
          /\ call' = [NoCall EXCEPT !.op = "fields", !.scanned = k]
    /\ UNCHANGED <<constructed, catalog, specs, fields, instance, written, clean>>
    /\ UNCHANGED matchVars

\* r.set_field_value(f, field_name, value), value a prvalue of type FT.
SetFieldValue ==
    /\ constructed
    /\ \E field_name \in FieldNames, FT \in FieldTypes :
        \E value \in ValuesOf(FT) :
          LET k == find_first(fields, field_name, 1)
              typed == k # 0 /\ fields[k].FT = FT
          IN  /\ instance' \in set_field_value(instance, fields, field_name, FT, value)
              /\ call' = [op |-> "set_field_value", name |-> field_name, FT |-> FT,
                          value |-> value, scanned |-> scanned(fields, field_name)]
              /\ clean' = (clean /\ (k = 0 \/ typed))
              /\ written' = IF ~clean'
                            THEN NothingWritten
                            ELSE IF k = 0
                                 THEN written
                                 ELSE [written EXCEPT ![field_name] = value]
    /\ returned' = <<"void">>
    /\ UNCHANGED <<constructed, catalog, specs, fields>>
    /\ UNCHANGED matchVars

NextRefl ==
    \/ Construct
    \/ NewInstance
    \/ ReadField
    \/ SetFieldValue

SpecRefl == InitRefl /\ [][NextRefl]_vars

-----------------------------------------------------------------------------
(* Properties of the type matcher, checked under SpecMatch.                *)

Instantiated == result # "pending"

BothApps == x.kind = "app" /\ y.kind = "app"

\* Every pair of corresponding arguments of two applications matches.
ArgsMatch(X, Y) ==
    \A i \in 1..Len(X.args) : is_a_v(X.args[i], Y.args[i]) = "true"

\* Every pair of corresponding arguments matches, position i left out.
ArgsMatchExcept(X, Y, i) ==
    \A j \in (1..Len(X.args)) \ {i} : is_a_v(X.args[j], Y.args[j]) = "true"

RECURSIVE ArityMismatch(_, _)
\* Two applications of the same template whose argument counts differ, here
\* or at a nesting level below, under the same templates.
ArityMismatch(X, Y) ==
    /\ X.kind = "app" /\ Y.kind = "app" /\ X.name = Y.name
    /\ \/ Len(X.args) # Len(Y.args)
       \/ \E i \in 1..Len(X.args) : ArityMismatch(X.args[i], Y.args[i])

\* C1 - Wildcard absorption: whenever either argument of is_a_v is
\* noaland::i_dont_care itself, whatever the other one is (plain, or a template
\* application of any arity and nesting), the instantiation yields true.
C1_WildcardAbsorption ==
    (Instantiated /\ (is_i_dont_care(x) \/ is_i_dont_care(y))) => result = "true"

\* C1's case: a two-argument template application matched against the wildcard.
C1_Witness ==
    /\ result = "true"
    /\ is_i_dont_care(x)
    /\ y.kind = "app" /\ Len(y.args) = 2

\* C2 - Structural congruence: for two applications of the same template with
\* equally many arguments, the result is true exactly when every pair of
\* corresponding arguments matches; when every pair yields a value so does the
\* application; and putting the wildcard at one argument position absorbs that
\* position only, all the others still having to match.
C2_StructuralCongruence ==
    (Instantiated /\ BothApps /\ x.name = y.name /\ Len(x.args) = Len(y.args)) =>
        /\ (result = "true") <=> ArgsMatch(x, y)
        /\ (\A i \in 1..Len(x.args) : is_a_v(x.args[i], y.args[i]) # "ill_formed")
               => result \in {"true", "false"}
        /\ \A i \in 1..Len(y.args) :
               (is_a_v(x, [y EXCEPT !.args[i] = i_dont_care]) = "true")
                   <=> ArgsMatchExcept(x, y, i)

\* C2's case: Tpl<A, B> against Tpl<Wildcard, B>, A not the wildcard.
C2_Witness ==
    /\ result = "true"
    /\ BothApps /\ x.name = y.name
    /\ Len(x.args) = 2 /\ Len(y.args) = 2
    /\ y.args[1] = i_dont_care /\ x.args[1] # i_dont_care
    /\ x.args[2] = y.args[2] /\ x.args[2] # i_dont_care

\* C3 - Template mismatch is false: two applications of different templates
\* with equally many arguments (none included) never match, even when every
\* pair of corresponding arguments does.
C3_TemplateMismatchIsFalse ==
    (Instantiated /\ BothApps /\ x.name # y.name /\ Len(x.args) = Len(y.args))
        => result = "false"

\* C4 - Arity mismatch is a hard false: two applications of the same template
\* whose argument counts differ at some nesting level yield the value false.
C4_ArityMismatchIsFalse ==
    (Instantiated /\ ArityMismatch(x, y)) => result = "false"

\* C5 - Reflexivity: every type description, wildcards inside or not, matches
\* itself.
C5_Reflexive ==
    (Instantiated /\ x = y) => result = "true"

\* C5's case: a nested application holding a wildcard, matched against itself.
C5_Witness ==
    /\ result = "true"
    /\ x = y
    /\ x.kind = "app" /\ Len(x.args) = 1
    /\ x.args[1].kind = "app" /\ x.args[1].args = <<i_dont_care>>

-----------------------------------------------------------------------------
(* Properties of the registry, checked under SpecRefl.                     *)

\* The words of member n in an instance.
FieldOf(inst, n) == SubSeq(inst, offsetof(n) + 1, offsetof(n) + SizeOf(decltype_member(n)))

\* Some descriptor of the field sequence carries the name n.
Registered(n) == \E k \in 1..Len(fields) : fields[k].name = n

\* The first descriptor, in registration order, that carries the name n.
FirstDescriptor(n) ==
    fields[CHOOSE k \in 1..Len(fields) :
               /\ fields[k].name = n
               /\ \A j \in 1..(k - 1) : fields[j].name # n]

\* The step is a set_field_value whose name is registered and whose FT is the
\* declared type of the member of that name.
TypedHitStep ==
    /\ call'.op = "set_field_value"
    /\ Registered(call'.name)
    /\ call'.FT = decltype_member(call'.name)

\* The step is a set_field_value whose name no descriptor carries.
MissStep ==
    /\ call'.op = "set_field_value"
    /\ ~Registered(call'.name)

WriteEffect ==
    TypedHitStep =>
        /\ SubSeq(instance', FirstDescriptor(call'.name).offset + 1,
                  FirstDescriptor(call'.name).offset + Len(call'.value)) = call'.value
        /\ FieldOf(instance', call'.name) = call'.value
        /\ \A m \in MemberNames \ {call'.name} : FieldOf(instance', m) = FieldOf(instance, m)

LastWritten ==
    clean => \A n \in MemberNames :
                 FieldOf(instance, n) = IF written[n] = <<>>
                                        THEN FieldOf(ZeroInstance, n)
                                        ELSE written[n]

\* C6 - Registry round trip: a set_field_value naming a registered field with a
\* value of the field's declared type stores the value at the offset of the
\* first descriptor of that name, which is the named member, and leaves every
\* other member as it was; so as long as every call was of that kind (or named
\* nothing registered) each member holds the last value stored under its name,
\* or its initial value when none was.
C6_RegistryRoundTrip == [][WriteEffect]_vars /\ []LastWritten

\* C6's case: i := 10 then d := 3.14 on a fresh instance, both registered.
C6_Witness ==
    /\ clean
    /\ call.op = "set_field_value" /\ call.name = "d"
    /\ written["i"] = <<10>> /\ written["d"] = <<3, 14>>
    /\ FieldOf(instance, "i") = <<10>> /\ FieldOf(instance, "d") = <<3, 14>>

FieldsFollowSpecs ==
    constructed =>
        /\ Len(fields) = Len(specs)
        /\ \A k \in 1..Len(specs) :
               /\ get_name(fields[k]) = specs[k]
               /\ get_offset(fields[k]) = offsetof(specs[k])

\* C7 - Registration order: the field sequence has one descriptor per
\* constructor argument, the k-th carrying the name and the offset of the k-th
\* argument, and once constructed no operation changes the sequence.
C7_RegistrationOrder ==
    /\ []FieldsFollowSpecs
    /\ [][constructed => (fields' = fields /\ specs' = specs)]_vars

\* C7's case: d registered before i, and a set_field_value has run since.
C7_Witness ==
    /\ constructed
    /\ specs = <<"d", "i">>
    /\ Len(fields) = 2 /\ get_name(fields[1]) = "d" /\ get_name(fields[2]) = "i"
    /\ get_offset(fields[1]) # get_offset(fields[2])
    /\ call.op = "set_field_value" /\ call.name = "i"
    /\ instance # ZeroInstance

\* C8 - Unknown field name reports failure: a set_field_value whose name no
\* descriptor carries leaves the instance unchanged and hands its caller
\* something other than what a successful call hands back.
C8_UnknownNameReportsFailure ==
    [][MissStep => (instance' = instance /\ returned' # <<"void">>)]_vars

\* C9 - The field type catalog has one slot per registered field, the k-th
\* slot being the declared type of the k-th descriptor.
C9_CatalogMatchesFields ==
    constructed =>
        /\ Len(catalog) = Len(fields)
        /\ \A k \in 1..Len(fields) : catalog[k] = fields[k].FT

\* C10 - Unknown field name is a no-op: when no descriptor carries the name,
\* set_field_value looks at every descriptor, stores nothing, and leaves the
\* instance and the field sequence as they were.
C10_UnknownNameNoOp ==
    [][MissStep => /\ call'.scanned = Len(fields)
                   /\ instance' = instance
                   /\ fields' = fields]_vars

\* C10's case: an unknown name against two descriptors, on an instance that
\* already holds stored values.
C10_Witness ==
    /\ call.op = "set_field_value" /\ call.name = "nonexistent"
    /\ Len(fields) = 2 /\ call.scanned = 2
    /\ FieldOf(instance, "i") = <<10>> /\ FieldOf(instance, "d") = <<3, 14>>

====
